---- MODULE Spec2Model ----
(***************************************************************************)
(* dataflow-cpp (src/df.h): ports, nodes and the graph, instantiated for   *)
(* T = int.  A graph is a record whose fields are the members of the C++   *)
(* objects; every member function is an operator from graph to graph, and  *)
(* the actions apply these operators to the variables.                     *)
(*                                                                         *)
(* Nodes are named by their creation number (1, 2, ...).  A pointer T* is  *)
(*   <<"default", n, k>>   &m_defaultValue of input k of node n            *)
(*   <<"out", m>>          &m_value of the output of node m                *)
(*   <<"null">>            nullptr                                         *)
(* node::Neg is left out of the kinds a graph can hold: Neg<T>::evaluate   *)
(* (df.h:319-322) names Inputs<T, T>, which is no base of Neg<T>, so no    *)
(* program that creates a Neg node builds.                                 *)
(***************************************************************************)
EXTENDS Integers, Sequences, FiniteSets, TLC

VARIABLES
    m_nodes,              \* Graph::m_nodes: node names in registration order
    kind,                 \* kind[n]: the class of node n
    m_value,              \* m_value[n]: Output<T>::m_value of node n
    m_defaultValue,       \* m_defaultValue[n][k]: Input<T>::m_defaultValue
    m_pConnectedValue,    \* m_pConnectedValue[n][k]: Input<T>::m_pConnectedValue
    m_evaluationTimeStep, \* Graph::m_evaluationTimeStep, a double
    pc,                   \* 0: no evaluate() running; i: the loop is at m_nodes[i]
    aborted,              \* the process was killed by a fault
    tick,                 \* number of Graph::evaluate() calls started
    calls,                \* number of calls the program has made on the graph
    evalLog,              \* nodes evaluated by the current (or last) tick, in order
    reads,                \* reads[i]: the values the evaluate of evalLog[i] read
    produced,             \* produced[i]: the output of evalLog[i] right after its evaluate
    evalLogPrev,          \* evalLog of the tick before
    producedPrev,         \* produced of the tick before
    tickStart,            \* m_value when that tick started
    bound,                \* bound[n][k]: the output the last connect call on input k
                          \* of n named; 0 when none or disconnected since, -1 for a
                          \* connect(pValue) whose pValue is no output's cell
    prevBound,            \* bound[n][k] before the last connect or disconnect call
    assigned,             \* assigned[n][k]: the last value assigned to the input
                          \* while bound[n][k] = 0; T() when there was none
    everConnected,        \* everConnected[n][k]: a connect call was made on the input
    stepRead,             \* stepRead[i]: what timeStep() returns to the evaluate of
                          \* evalLog[i]
    lastSetter,           \* the last call of timeStep(dt) or sampleRate(sr): which of
                          \* the two ("none" before the first), its argument, and
                          \* the number of ticks run before it
    varSet                \* the variable = value calls so far, in order: the number
                          \* of ticks run before the call (at), the value replaced
                          \* (old) and the value assigned (new)

vars == <<m_nodes, kind, m_value, m_defaultValue, m_pConnectedValue,
          m_evaluationTimeStep, pc, aborted, tick, calls, evalLog, reads,
          produced, evalLogPrev, producedPrev, tickStart, bound, prevBound,
          assigned, everConnected, stepRead, lastSetter, varSet>>

----------------------------------------------------------------------------
(* Bounds *)

\* Calls a program makes in a run of Spec and of SpecPorts.
MaxCalls == 5
MaxPortCalls == 4

\* Calls a program makes in a run of SpecFactories.
MaxFactoryCalls == 4

\* Ticks in a run of SpecOrder, of SpecSinCos and of SpecArith.
MaxOrderTicks == 3
MaxSinCosTicks == 6
MaxArithTicks == 1

\* Time steps of the sine/cosine graph: 1..MaxDt.
MaxDt == 3

\* Operands of the arithmetic nodes: -MaxArg..MaxArg.
MaxArg == 10

\* Stages of the feed-forward chain: 1..MaxChain; calls (evaluate() and
\* variable = value) in a run of SpecChain.
MaxChain == 3
MaxChainCalls == 6

\* Calls in a run of SpecConnect.
MaxConnectCalls == 3

\* Values of a, b and c of the (a + b) * c graph: -MaxSimpleArg..MaxSimpleArg;
\* ticks in a run of SpecSimple1.
MaxSimpleArg == 3
MaxSimpleTicks == 2

\* Values handed to the assignment operators and to variable(value).
Values == {1, 2}

\* Values handed to variable(value) and to out = value while a graph is built.
Seeds == {2}

\* What a read through an invalid pointer, or an int division with undefined
\* behaviour (a zero divisor, IntMin / -1), may yield when it does not fault.
Garbage == {0, 7}

\* Calls a program makes in a run of SpecTime.
MaxTimeCalls == 3

\* Arguments of Graph::sampleRate(sr), and the inverses of arguments of
\* Graph::timeStep(dt); sampleRate(100.0) is the call of the examples.
Rates == {1, 3, 4, 49, 100}
StepInverses == {4, 100}

\* The 53 bits of the significand of a double, in two halves.
HiBits == 26
LoBits == 27

----------------------------------------------------------------------------
(* double: the positive normal values of IEEE 754 binary64.  A value is    *)
(* [hi, lo, e], standing for (hi * 2^LoBits + lo) * 2^e: the 53 bits of    *)
(* its significand as two digits of base 2^LoBits, the top bit of hi set.  *)
(* A number of up to 54 bits is a pair <<high digit, low digit>>.          *)

Radix == 2^LoBits

\* The number of bits of n >= 0.
RECURSIVE BitLength(_)
BitLength(n) == IF n = 0 THEN 0 ELSE 1 + BitLength(n \div 2)

\* s < t, s - t (for s >= t), 2 * s and s + 1 of two-digit numbers.
WideLess(s, t) == s[1] < t[1] \/ (s[1] = t[1] /\ s[2] < t[2])
WideMinus(s, t) ==
    IF s[2] >= t[2]
    THEN <<s[1] - t[1], s[2] - t[2]>>
    ELSE <<s[1] - t[1] - 1, s[2] - t[2] + Radix>>
WideTwice(s) == <<2 * s[1] + (2 * s[2]) \div Radix, (2 * s[2]) % Radix>>
WidePlusOne(s) == <<s[1] + (s[2] + 1) \div Radix, (s[2] + 1) % Radix>>

\* The significand of x.
Significand(x) == <<x.hi, x.lo>>

\* The conversion of an int n > 0 to double: exact.
DoubleOfInt(n) ==
    LET len == BitLength(n) IN
    IF len <= HiBits
    THEN [hi |-> n * 2^(HiBits - len), lo |-> 0, e |-> len - (HiBits + LoBits)]
    ELSE [hi |-> n \div 2^(len - HiBits),
          lo |-> (n % 2^(len - HiBits)) * 2^(HiBits + LoBits - len),
          e |-> len - (HiBits + LoBits)]

\* Long division: n more bits of the quotient r / b shifted into q, for
\* r < 2 * b and qr = <<q, r>>; <<quotient, twice the remainder>>.
RECURSIVE LongDivide(_, _, _)
LongDivide(qr, b, n) ==
    IF n = 0
    THEN qr
    ELSE IF WideLess(qr[2], b)
         THEN LongDivide(<<WideTwice(qr[1]), WideTwice(qr[2])>>, b, n - 1)
         ELSE LongDivide(<<WidePlusOne(WideTwice(qr[1])),
                           WideTwice(WideMinus(qr[2], b))>>, b, n - 1)

\* x / y of double operands, rounded to nearest, ties to even.
DoubleDivide(x, y) ==
    LET p == HiBits + LoBits
        a == Significand(x)
        b == Significand(y)
        small == WideLess(a, b)
        qr == LongDivide(<<<<0, 0>>, IF small THEN WideTwice(a) ELSE a>>, b, p)
        q == qr[1]
        e == x.e - y.e - (IF small THEN p ELSE p - 1)
        up == \/ WideLess(b, qr[2])
              \/ qr[2] = b /\ q[2] % 2 = 1
        q1 == WidePlusOne(q)
    IN IF ~up THEN [hi |-> q[1], lo |-> q[2], e |-> e]
       ELSE IF q1[1] = 2^HiBits
            THEN [hi |-> 2^(HiBits - 1), lo |-> 0, e |-> e + 1]
            ELSE [hi |-> q1[1], lo |-> q1[2], e |-> e]

\* 1.0 / x.
Reciprocal(x) == DoubleDivide(DoubleOfInt(1), x)

\* The double next above x and the double next below x.
NextUp(x) ==
    IF WidePlusOne(Significand(x)) = <<2^HiBits, 0>>
    THEN [hi |-> 2^(HiBits - 1), lo |-> 0, e |-> x.e + 1]
    ELSE [hi |-> WidePlusOne(Significand(x))[1],
          lo |-> WidePlusOne(Significand(x))[2], e |-> x.e]
NextDown(x) ==
    IF Significand(x) = <<2^(HiBits - 1), 0>>
    THEN [hi |-> 2^HiBits - 1, lo |-> Radix - 1, e |-> x.e - 1]
    ELSE [hi |-> WideMinus(Significand(x), <<0, 1>>)[1],
          lo |-> WideMinus(Significand(x), <<0, 1>>)[2], e |-> x.e]

\* Whether x is a power of two.
IsPowerOfTwo(x) == Significand(x) = <<2^(HiBits - 1), 0>>

----------------------------------------------------------------------------
(* The graph as a value *)

Kinds == {"Variable", "Add", "Sub", "Mul", "Div"}

\* Inputs<...> of each node class: Variable has none, the others Inputs<T, T>.
NumInputs(c) == IF c = "Variable" THEN 0 ELSE 2

NullPtr == <<"null">>
DefaultCell(n, k) == <<"default", n, k>>
OutCell(m) == <<"out", m>>

State == [m_nodes |-> m_nodes, kind |-> kind, m_value |-> m_value,
          m_defaultValue |-> m_defaultValue,
          m_pConnectedValue |-> m_pConnectedValue,
          m_evaluationTimeStep |-> m_evaluationTimeStep]

\* Graph::Graph(): no nodes, time step 1e-6.
GraphCtor == [m_nodes |-> <<>>, kind |-> <<>>, m_value |-> <<>>,
              m_defaultValue |-> <<>>, m_pConnectedValue |-> <<>>,
              m_evaluationTimeStep |-> DoubleDivide(DoubleOfInt(1), DoubleOfInt(1000000))]

NodeIds(g) == 1..Len(g.kind)
InputIds(g, n) == 1..NumInputs(g.kind[n])
InputPorts(g) == {p \in NodeIds(g) \X {1, 2} : p[2] \in InputIds(g, p[1])}

\* A slip in Input<T>::Input(): every input of a node points at the default
\* cell of the node's first input.
MakeSharedOneDefault(g, c) ==
    LET n == Len(g.kind) + 1 IN
    [g EXCEPT !.kind = Append(@, c),
              !.m_value = Append(@, 0),
              !.m_defaultValue = Append(@, [k \in 1..NumInputs(c) |-> 0]),
              !.m_pConnectedValue =
                  Append(@, [k \in 1..NumInputs(c) |-> DefaultCell(n, 1)])]

\* Input<T>::Input(): m_defaultValue(), m_pConnectedValue(&m_defaultValue);
\* Output<T>::Output(): m_value().  The new node is named Len + 1.
MakeShared(g, c) ==
    LET n == Len(g.kind) + 1 IN
    [g EXCEPT !.kind = Append(@, c),
              !.m_value = Append(@, 0),
              !.m_defaultValue = Append(@, [k \in 1..NumInputs(c) |-> 0]),
              !.m_pConnectedValue =
                  Append(@, [k \in 1..NumInputs(c) |-> DefaultCell(n, k)])]

\* A slip in registerNode: the node goes to the front of the list.
RegisterNodeFront(g, n) == [g EXCEPT !.m_nodes = <<n>> \o @]

\* Graph::registerNode: m_nodes.push_back(node).
RegisterNode(g, n) == [g EXCEPT !.m_nodes = Append(@, n)]

\* Graph::node<N>(): make_shared, registerNode.
GraphNode(g, c) == RegisterNode(MakeShared(g, c), Len(g.kind) + 1)

\* Output<T>::operator=(value): m_value = value.
OutputAssign(g, m, v) == [g EXCEPT !.m_value[m] = v]

\* Graph::variable(value): node<Variable<T>>(), then firstOutput() = value.
GraphVariable(g, v) == OutputAssign(GraphNode(g, "Variable"), Len(g.kind) + 1, v)

\* A slip in connect(): every input of the node is bound to pValue.
InputConnectNode(g, n, k, p) ==
    [g EXCEPT !.m_pConnectedValue[n] = [j \in DOMAIN @ |-> p]]

\* Input<T>::connect(pValue): m_pConnectedValue = pValue.
InputConnect(g, n, k, p) == [g EXCEPT !.m_pConnectedValue[n][k] = p]

\* A slip in disconnect(): the input keeps the value it last saw.
InputDisconnectKeep(g, n, k) ==
    [g EXCEPT !.m_defaultValue[n][k] =
                  IF g.m_pConnectedValue[n][k][1] = "out"
                  THEN g.m_value[g.m_pConnectedValue[n][k][2]]
                  ELSE @,
              !.m_pConnectedValue[n][k] = DefaultCell(n, k)]

\* Input<T>::disconnect(): m_pConnectedValue = &m_defaultValue.
InputDisconnect(g, n, k) ==
    [g EXCEPT !.m_pConnectedValue[n][k] = DefaultCell(n, k)]

\* A slip in Output<T>::connect: the input gets a copy of the value, not the cell.
OutputConnectCopy(g, m, n, k) == [g EXCEPT !.m_defaultValue[n][k] = g.m_value[m]]

\* Output<T>::connect(input) and operator>>: input.connect(&m_value).
OutputConnect(g, m, n, k) == InputConnect(g, n, k, OutCell(m))

\* Whether p is the address of a live cell of g.
ValidPtr(g, p) ==
    \/ /\ p[1] = "default"
       /\ p[2] \in NodeIds(g)
       /\ p[3] \in InputIds(g, p[2])
    \/ /\ p[1] = "out"
       /\ p[2] \in NodeIds(g)

\* *p for a valid p.
Deref(g, p) ==
    IF p[1] = "default" THEN g.m_defaultValue[p[2]][p[3]] ELSE g.m_value[p[2]]

\* *p = v for a valid p.
Store(g, p, v) ==
    IF p[1] = "default"
    THEN [g EXCEPT !.m_defaultValue[p[2]][p[3]] = v]
    ELSE [g EXCEPT !.m_value[p[2]] = v]

\* Input<T>::value(): *m_pConnectedValue.
InputValue(g, n, k) == Deref(g, g.m_pConnectedValue[n][k])

\* Input<T>::operator=(value): *m_pConnectedValue = value.
InputAssign(g, n, k, v) == Store(g, g.m_pConnectedValue[n][k], v)

\* Output<T>::value().
OutputValue(g, m) == g.m_value[m]

\* Graph::timeStep().
GraphTimeStep(g) == g.m_evaluationTimeStep

\* A slip in Graph::timeStep(dt): the rate is stored where the step belongs.
GraphSetTimeStepAsRate(g, dt) == [g EXCEPT !.m_evaluationTimeStep = Reciprocal(dt)]

\* Graph::timeStep(dt): m_evaluationTimeStep = dt.
GraphSetTimeStep(g, dt) == [g EXCEPT !.m_evaluationTimeStep = dt]

\* A slip in Graph::sampleRate(): the step is returned as it is stored.
GraphSampleRateRaw(g) == g.m_evaluationTimeStep

\* Graph::sampleRate(): 1.0 / m_evaluationTimeStep.
GraphSampleRate(g) == Reciprocal(g.m_evaluationTimeStep)

\* Graph::sampleRate(sr): m_evaluationTimeStep = 1.0 / sr.
GraphSetSampleRate(g, sr) == [g EXCEPT !.m_evaluationTimeStep = Reciprocal(sr)]

----------------------------------------------------------------------------
(* Node::evaluate *)

\* std::numeric_limits<int>::max() and min().
IntMax == 2147483647
IntMin == -IntMax - 1

\* |x| for x # IntMin.
Abs(x) == IF x < 0 THEN -x ELSE x

\* The built-in operator / on int: the quotient truncated towards zero, for
\* b # 0 and not (a = IntMin and b = -1).
TruncDiv(a, b) ==
    IF b = IntMin THEN (IF a = IntMin THEN 1 ELSE 0)
    ELSE IF a = IntMin
         THEN LET q == (IntMin + (Abs(b) - 1)) \div Abs(b)
              IN IF b > 0 THEN q ELSE -q
    ELSE IF (a < 0) = (b < 0) THEN Abs(a) \div Abs(b) ELSE -(Abs(a) \div Abs(b))

\* A slip in Add<T>::evaluate: both operands are read through firstInput().
AddEvaluateSameInput(x0, x1) == x0 + x0

\* Add<T>::evaluate: firstInput().value() + otherInputs().firstInput().value().
AddEvaluate(x0, x1) == x0 + x1

\* A slip in Sub<T>::evaluate: the operands are swapped.
SubEvaluateSwapped(x0, x1) == x1 - x0

\* Sub<T>::evaluate: firstInput().value() - otherInputs().firstInput().value().
SubEvaluate(x0, x1) == x0 - x1

\* A slip in Mul<T>::evaluate: the first operand is multiplied by itself.
MulEvaluateSquare(x0, x1) == x0 * x0

\* Mul<T>::evaluate: firstInput().value() * otherInputs().firstInput().value().
MulEvaluate(x0, x1) == x0 * x1

\* A slip in Div<T>::evaluate: the quotient is rounded down.
DivEvaluateFloor(x0, x1) == IF x1 > 0 THEN x0 \div x1 ELSE (-x0) \div (-x1)

\* Div<T>::evaluate: firstInput().value() / otherInputs().firstInput().value().
DivEvaluate(x0, x1) == TruncDiv(x0, x1)

\* Whether the int operation of class c overflows on x0 and x1 (a product of
\* exactly IntMin is counted as overflowing: it wraps to itself).
Overflows(c, x0, x1) ==
    CASE c = "Add" -> \/ x1 > 0 /\ x0 > IntMax - x1
                      \/ x1 < 0 /\ x0 < IntMin - x1
      [] c = "Sub" -> \/ x1 < 0 /\ x0 > IntMax + x1
                      \/ x1 > 0 /\ x0 < IntMin + x1
      [] c = "Mul" -> /\ x0 # 0
                      /\ x1 # 0
                      /\ IF x0 = IntMin THEN x1 # 1
                         ELSE IF x1 = IntMin THEN x0 # 1
                         ELSE Abs(x0) > IntMax \div Abs(x1)
      [] c = "Div" -> x0 = IntMin /\ x1 = -1

\* The two 16-bit halves of the two's complement pattern of an int, and the
\* int of a pattern.
High16(x) == (x \div 2^16) % 2^16
Low16(x) == x % 2^16
IntOfHalves(hi, lo) == (IF hi >= 2^15 THEN hi - 2^16 ELSE hi) * 2^16 + lo

\* The product of two 16-bit numbers, as <<high half, low half>>.
Product16(a, b) ==
    LET t == (a % 2^8) * b
        s == (a \div 2^8) * b + t \div 2^8
    IN <<s \div 2^8, (s % 2^8) * 2^8 + (t % 2^8)>>

\* What the machine's add, subtract and multiply leave when the int result
\* overflows: the low 32 bits of the exact result.
Wrapped(c, x0, x1) ==
    CASE c = "Add" ->
           LET lo == Low16(x0) + Low16(x1)
           IN IntOfHalves((High16(x0) + High16(x1) + lo \div 2^16) % 2^16, lo % 2^16)
      [] c = "Sub" ->
           LET lo == Low16(x0) - Low16(x1)
           IN IntOfHalves((High16(x0) - High16(x1) + lo \div 2^16) % 2^16, lo % 2^16)
      [] c = "Mul" ->
           LET p == Product16(Low16(x0), Low16(x1))
           IN IntOfHalves((p[1] + Product16(High16(x0), Low16(x1))[2]
                                + Product16(Low16(x0), High16(x1))[2]) % 2^16, p[2])

\* The value evaluate() of class c stores into firstOutput(), from the values
\* read through firstInput() (x0) and otherInputs().firstInput() (x1), for a
\* Div that does not trap.
EvaluateResult(c, x0, x1) ==
    IF c # "Div" /\ Overflows(c, x0, x1)
    THEN Wrapped(c, x0, x1)
    ELSE CASE c = "Add" -> AddEvaluate(x0, x1)
           [] c = "Sub" -> SubEvaluate(x0, x1)
           [] c = "Mul" -> MulEvaluate(x0, x1)
           [] c = "Div" -> DivEvaluate(x0, x1)

\* What value() can return through p: *p, or anything when p is invalid.
ReadSet(g, p) == IF ValidPtr(g, p) THEN {Deref(g, p)} ELSE Garbage

\* Whether the int division of class c on x0 and x1 has undefined behaviour:
\* a zero divisor, or IntMin / -1.  The divide instruction of x86 traps on
\* both; that of other machines returns some value.
Undefined(c, x0, x1) == c = "Div" /\ (x1 = 0 \/ Overflows(c, x0, x1))

\* Whether evaluate() of node n can fault when it reads x0 and x1: a read
\* through an invalid pointer, or a division with undefined behaviour.
CanFault(g, n, x0, x1) ==
    \/ \E k \in InputIds(g, n) : ~ValidPtr(g, g.m_pConnectedValue[n][k])
    \/ Undefined(g.kind[n], x0, x1)

\* Whether evaluate() of node n returns, with the result of its operation
\* stored, having read x0 and x1.
CanReturn(g, n, x0, x1) == ~Undefined(g.kind[n], x0, x1)

\* A slip in evaluate(): the result is stored through the first input's pointer.
NodeEvaluateIntoInput(g, n, xs) ==
    IF g.kind[n] = "Variable"
    THEN g
    ELSE InputAssign(g, n, 1, EvaluateResult(g.kind[n], xs[1], xs[2]))

\* A slip in Variable: an evaluate() override that clears the output.
NodeEvaluateClearVariable(g, n, xs) ==
    IF g.kind[n] = "Variable"
    THEN OutputAssign(g, n, 0)
    ELSE OutputAssign(g, n, EvaluateResult(g.kind[n], xs[1], xs[2]))

\* Node::timeStep() and Node::sampleRate(), as a node's evaluate sees them:
\* the time step of the graph the node belongs to, and 1 / timeStep().
NodeTimeStep(g) == GraphTimeStep(g)
NodeSampleRate(g) == DoubleDivide(DoubleOfInt(1), NodeTimeStep(g))

\* evaluate() of node n, which read xs: Node::evaluate() {} for a Variable.
NodeEvaluate(g, n, xs) ==
    IF g.kind[n] = "Variable"
    THEN g
    ELSE OutputAssign(g, n, EvaluateResult(g.kind[n], xs[1], xs[2]))

----------------------------------------------------------------------------
(* The program: calls on the graph, its nodes and their ports *)

graphVars == <<m_nodes, kind, m_value, m_defaultValue, m_pConnectedValue,
               m_evaluationTimeStep>>
tickVars == <<pc, tick, evalLog, reads, produced, evalLogPrev, producedPrev,
              tickStart, stepRead>>
portVars == <<bound, prevBound, assigned, everConnected>>
callVars == <<lastSetter, varSet>>

Apply(h) ==
    /\ m_nodes' = h.m_nodes
    /\ kind' = h.kind
    /\ m_value' = h.m_value
    /\ m_defaultValue' = h.m_defaultValue
    /\ m_pConnectedValue' = h.m_pConnectedValue
    /\ m_evaluationTimeStep' = h.m_evaluationTimeStep

\* The caller is between calls: no evaluate() is running.
Idle == pc = 0 /\ ~aborted

\* The output a T* names, as bound records it.
BoundOf(p) == IF p[1] = "out" THEN p[2] ELSE -1

\* The variables hold graph h, wired by the connect calls that h's pointers
\* show, and no evaluate() has been called yet.
Built(h) ==
    /\ m_nodes = h.m_nodes
    /\ kind = h.kind
    /\ m_value = h.m_value
    /\ m_defaultValue = h.m_defaultValue
    /\ m_pConnectedValue = h.m_pConnectedValue
    /\ m_evaluationTimeStep = h.m_evaluationTimeStep
    /\ pc = 0
    /\ aborted = FALSE
    /\ tick = 0
    /\ calls = 0
    /\ evalLog = <<>>
    /\ reads = <<>>
    /\ produced = <<>>
    /\ evalLogPrev = <<>>
    /\ producedPrev = <<>>
    /\ tickStart = <<>>
    /\ bound = [n \in NodeIds(h) |-> [k \in InputIds(h, n) |->
                 IF h.m_pConnectedValue[n][k] = DefaultCell(n, k)
                 THEN 0 ELSE BoundOf(h.m_pConnectedValue[n][k])]]
    /\ prevBound = [n \in NodeIds(h) |-> [k \in InputIds(h, n) |-> 0]]
    /\ assigned = h.m_defaultValue
    /\ everConnected = [n \in NodeIds(h) |-> [k \in InputIds(h, n) |->
                 h.m_pConnectedValue[n][k] # DefaultCell(n, k)]]
    /\ stepRead = <<>>
    /\ lastSetter = [op |-> "none", arg |-> h.m_evaluationTimeStep, at |-> 0]
    /\ varSet = <<>>

\* df::Graph g;
Init == Built(GraphCtor)

\* The ports of a new node of class c: never connected, never assigned.
NewPorts(c) ==
    /\ bound' = Append(bound, [k \in 1..NumInputs(c) |-> 0])
    /\ prevBound' = Append(prevBound, [k \in 1..NumInputs(c) |-> 0])
    /\ assigned' = Append(assigned, [k \in 1..NumInputs(c) |-> 0])
    /\ everConnected' = Append(everConnected, [k \in 1..NumInputs(c) |-> FALSE])

\* A connect call on input k of n was given the cell of output b (-1: of none).
Bind(n, k, b) ==
    /\ bound' = [bound EXCEPT ![n][k] = b]
    /\ prevBound' = [prevBound EXCEPT ![n][k] = bound[n][k]]
    /\ everConnected' = [everConnected EXCEPT ![n][k] = TRUE]
    /\ UNCHANGED assigned

\* g.node<N>(), and g.add<T>(), g.sub<T>(), g.mul<T>(), g.div<T>().
GraphNodeCall(c) ==
    /\ Idle
    /\ Apply(GraphNode(State, c))
    /\ NewPorts(c)
    /\ calls' = calls + 1
    /\ UNCHANGED <<tickVars, callVars, aborted>>

\* g.variable<T>(v).
GraphVariableCall(v) ==
    /\ Idle
    /\ Apply(GraphVariable(State, v))
    /\ NewPorts("Variable")
    /\ calls' = calls + 1
    /\ UNCHANGED <<tickVars, callVars, aborted>>

\* out.connect(in), out >> in, variable >> in.
OutputConnectCall(m, n, k) ==
    /\ Idle
    /\ Apply(OutputConnect(State, m, n, k))
    /\ Bind(n, k, m)
    /\ calls' = calls + 1
    /\ UNCHANGED <<tickVars, callVars, aborted>>

\* out >> in1 >> in2: operator>> returns the output, so both bind to it.
OutputChainCall(m, i1, i2) ==
    /\ Idle
    /\ Apply(OutputConnect(OutputConnect(State, m, i1[1], i1[2]), m, i2[1], i2[2]))
    /\ bound' = [bound EXCEPT ![i1[1]][i1[2]] = m, ![i2[1]][i2[2]] = m]
    /\ prevBound' = [prevBound EXCEPT ![i1[1]][i1[2]] = bound[i1[1]][i1[2]],
                                      ![i2[1]][i2[2]] = bound[i2[1]][i2[2]]]
    /\ everConnected' = [everConnected EXCEPT ![i1[1]][i1[2]] = TRUE,
                                              ![i2[1]][i2[2]] = TRUE]
    /\ calls' = calls + 1
    /\ UNCHANGED <<tickVars, callVars, aborted, assigned>>

\* in.connect(pValue) with any T*: the address of an output cell, or nullptr.
InputConnectCall(n, k, p) ==
    /\ Idle
    /\ Apply(InputConnect(State, n, k, p))
    /\ Bind(n, k, BoundOf(p))
    /\ calls' = calls + 1
    /\ UNCHANGED <<tickVars, callVars, aborted>>

\* in.disconnect().
InputDisconnectCall(n, k) ==
    /\ Idle
    /\ Apply(InputDisconnect(State, n, k))
    /\ bound' = [bound EXCEPT ![n][k] = 0]
    /\ prevBound' = [prevBound EXCEPT ![n][k] = bound[n][k]]
    /\ calls' = calls + 1
    /\ UNCHANGED <<tickVars, callVars, aborted, assigned, everConnected>>

\* in = v.  A store through an invalid pointer faults or hits no cell of the graph.
InputAssignCall(n, k, v) ==
    /\ Idle
    /\ calls' = calls + 1
    /\ IF ValidPtr(State, m_pConnectedValue[n][k])
       THEN /\ Apply(InputAssign(State, n, k, v))
            /\ UNCHANGED aborted
       ELSE /\ aborted' \in {TRUE, FALSE}
            /\ UNCHANGED graphVars
    /\ assigned' = IF bound[n][k] = 0 THEN [assigned EXCEPT ![n][k] = v] ELSE assigned
    /\ UNCHANGED <<tickVars, callVars, bound, prevBound, everConnected>>

\* out = v, variable = v.
OutputAssignCall(m, v) ==
    /\ Idle
    /\ Apply(OutputAssign(State, m, v))
    /\ calls' = calls + 1
    /\ UNCHANGED <<tickVars, callVars, aborted, portVars>>

\* g.timeStep(dt).
TimeStepCall(dt) ==
    /\ Idle
    /\ Apply(GraphSetTimeStep(State, dt))
    /\ lastSetter' = [op |-> "timeStep", arg |-> dt, at |-> tick]
    /\ calls' = calls + 1
    /\ UNCHANGED <<tickVars, varSet, aborted, portVars>>

\* g.sampleRate(sr).
SampleRateCall(sr) ==
    /\ Idle
    /\ Apply(GraphSetSampleRate(State, sr))
    /\ lastSetter' = [op |-> "sampleRate", arg |-> sr, at |-> tick]
    /\ calls' = calls + 1
    /\ UNCHANGED <<tickVars, varSet, aborted, portVars>>

\* variable = v: Variable<T>::operator=, firstOutput() = value.
VariableAssignCall(m, v) ==
    /\ Idle
    /\ kind[m] = "Variable"
    /\ Apply(OutputAssign(State, m, v))
    /\ varSet' = Append(varSet, [at |-> tick, old |-> m_value[m], new |-> v])
    /\ calls' = calls + 1
    /\ UNCHANGED <<tickVars, lastSetter, aborted, portVars>>

\* g.evaluate() is called: the range-for starts at m_nodes.begin().
EvaluateBegin ==
    /\ Idle
    /\ pc' = 1
    /\ tick' = tick + 1
    /\ evalLog' = <<>>
    /\ reads' = <<>>
    /\ produced' = <<>>
    /\ evalLogPrev' = evalLog
    /\ producedPrev' = produced
    /\ tickStart' = m_value
    /\ stepRead' = <<>>
    /\ calls' = calls + 1
    /\ UNCHANGED <<graphVars, aborted, portVars, callVars>>

\* A slip in Graph::evaluate(): the list is walked from its end.
LoopNodeReverse == m_nodes[Len(m_nodes) + 1 - pc]

\* The node the loop of Graph::evaluate() is at.
LoopNode == m_nodes[pc]

\* A slip in Graph::evaluate(): a node that reads its own output is evaluated
\* a second time before the loop moves on.
LoopAdvanceSettling(g, i) ==
    IF /\ \E k \in InputIds(g, g.m_nodes[i]) :
              g.m_pConnectedValue[g.m_nodes[i]][k] = OutCell(g.m_nodes[i])
       /\ Len(evalLog) < i
    THEN i
    ELSE i + 1

\* The ++ of the range-for: the loop moves to the next entry of the list.
LoopAdvance(g, i) == i + 1

\* One iteration of the loop: n->evaluate() for n = m_nodes[pc].
EvaluateStep ==
    /\ ~aborted
    /\ pc \in 1..Len(m_nodes)
    /\ LET n == LoopNode IN
       IF kind[n] = "Variable"
       THEN /\ Apply(NodeEvaluate(State, n, <<>>))
            /\ pc' = LoopAdvance(State, pc)
            /\ evalLog' = Append(evalLog, n)
            /\ reads' = Append(reads, <<>>)
            /\ produced' = Append(produced, m_value'[n])
            /\ stepRead' = Append(stepRead, NodeTimeStep(State))
            /\ UNCHANGED aborted
       ELSE \E x0 \in ReadSet(State, m_pConnectedValue[n][1]),
               x1 \in ReadSet(State, m_pConnectedValue[n][2]) :
              \/ /\ CanFault(State, n, x0, x1)
                 /\ aborted' = TRUE
                 /\ UNCHANGED <<graphVars, pc, evalLog, reads, produced, stepRead>>
              \/ /\ IF CanReturn(State, n, x0, x1)
                    THEN Apply(NodeEvaluate(State, n, <<x0, x1>>))
                    ELSE \E r \in Garbage : Apply(OutputAssign(State, n, r))
                 /\ pc' = LoopAdvance(State, pc)
                 /\ evalLog' = Append(evalLog, n)
                 /\ reads' = Append(reads, <<x0, x1>>)
                 /\ produced' = Append(produced, m_value'[n])
                 /\ stepRead' = Append(stepRead, NodeTimeStep(State))
                 /\ UNCHANGED aborted
    /\ UNCHANGED <<tick, calls, evalLogPrev, producedPrev, tickStart, portVars,
                   callVars>>

\* The loop reached m_nodes.end(): evaluate() returns.
EvaluateEnd ==
    /\ ~aborted
    /\ pc = Len(m_nodes) + 1
    /\ pc' = 0
    /\ UNCHANGED <<graphVars, aborted, tick, calls, evalLog, reads, produced,
                   evalLogPrev, producedPrev, tickStart, stepRead, portVars,
                   callVars>>

OutCells == {OutCell(m) : m \in NodeIds(State)}

----------------------------------------------------------------------------
(* Building and stepping a graph: nodes are created, wired with >> and     *)
(* seeded between ticks.                                                   *)

Next ==
    \/ calls < MaxCalls /\ \E c \in Kinds : GraphNodeCall(c)
    \/ calls < MaxCalls /\ \E v \in Seeds : GraphVariableCall(v)
    \/ /\ calls < MaxCalls
       /\ \E m \in NodeIds(State), i \in InputPorts(State) :
             OutputConnectCall(m, i[1], i[2])
    \/ calls < MaxCalls /\ \E m \in NodeIds(State), v \in Seeds : OutputAssignCall(m, v)
    \/ calls < MaxCalls /\ EvaluateBegin
    \/ EvaluateStep
    \/ EvaluateEnd

Spec == Init /\ [][Next]_vars

----------------------------------------------------------------------------
(* Port operations on a built graph: two Variables and one binary node.    *)

\* auto& a = g.variable<int>(1); auto& b = g.variable<int>(2); g.node<c>();
PortsGraph(c) == GraphNode(GraphVariable(GraphVariable(GraphCtor, 1), 2), c)

InitPorts == \E c \in Kinds \ {"Variable"} : Built(PortsGraph(c))

NextPorts ==
    \/ /\ calls < MaxPortCalls
       /\ \E m \in NodeIds(State), i \in InputPorts(State) :
             OutputConnectCall(m, i[1], i[2])
    \/ /\ calls < MaxPortCalls
       /\ \E m \in NodeIds(State), i1 \in InputPorts(State), i2 \in InputPorts(State) :
             i1 # i2 /\ OutputChainCall(m, i1, i2)
    \/ /\ calls < MaxPortCalls
       /\ \E i \in InputPorts(State), p \in OutCells \cup {NullPtr} :
             InputConnectCall(i[1], i[2], p)
    \/ calls < MaxPortCalls /\ \E i \in InputPorts(State) : InputDisconnectCall(i[1], i[2])
    \/ /\ calls < MaxPortCalls
       /\ \E i \in InputPorts(State), v \in Values : InputAssignCall(i[1], i[2], v)
    \/ calls < MaxPortCalls /\ \E m \in NodeIds(State), v \in Values : OutputAssignCall(m, v)
    \/ calls < MaxPortCalls /\ EvaluateBegin
    \/ EvaluateStep
    \/ EvaluateEnd

SpecPorts == InitPorts /\ [][NextPorts]_vars

----------------------------------------------------------------------------
(* Two nodes registered in the order [A, B], wired in any way, then stepped. *)

\* out >> in for every input i that w sends to an output w[i] (0: left alone).
RECURSIVE ConnectAll(_, _, _)
ConnectAll(g, S, w) ==
    IF S = {}
    THEN g
    ELSE LET i == CHOOSE x \in S : TRUE IN
         ConnectAll(IF w[i] = 0 THEN g ELSE OutputConnect(g, w[i], i[1], i[2]),
                    S \ {i}, w)

\* auto& a = g.node<ca>(); auto& b = g.node<cb>(); the >> of w; a.out = sa;
\* b.out = sb;
OrderGraph(ca, cb, w, sa, sb) ==
    LET g2 == GraphNode(GraphNode(GraphCtor, ca), cb) IN
    OutputAssign(OutputAssign(ConnectAll(g2, InputPorts(g2), w), 1, sa), 2, sb)

InitOrder ==
    \E ca \in Kinds, cb \in Kinds, sa \in Values, sb \in Values :
        \E w \in [InputPorts(GraphNode(GraphNode(GraphCtor, ca), cb)) -> 0..2] :
            Built(OrderGraph(ca, cb, w, sa, sb))

NextOrder ==
    \/ tick < MaxOrderTicks /\ EvaluateBegin
    \/ EvaluateStep
    \/ EvaluateEnd

SpecOrder == InitOrder /\ [][NextOrder]_vars

\* C1. With A registered before B, in every tick N: what B's evaluate reads
\* through an input bound to A's output is the value A's evaluate of tick N
\* left there, and what A's evaluate reads through an input bound to B's
\* output is the value B's evaluate of tick N - 1 left there (for N = 1, the
\* value B's output held when the first tick started).  reads[1] and
\* produced[1] are A's, reads[2] and produced[2] are B's.
C1_RegistrationOrderReads ==
    LET A == m_nodes[1]
        B == m_nodes[2]
    IN /\ Len(evalLog) >= 1 => evalLog[1] = A
       /\ Len(evalLog) >= 2 => evalLog[2] = B
       /\ \A k \in InputIds(State, B) :
             (Len(evalLog) >= 2 /\ bound[B][k] = A) => reads[2][k] = produced[1]
       /\ \A k \in InputIds(State, A) :
             (Len(evalLog) >= 1 /\ bound[A][k] = B) =>
                 reads[1][k] = IF tick = 1 THEN tickStart[B] ELSE producedPrev[2]

\* A later tick is at its end; A reads B and B reads A; A's evaluate changed
\* A's output in this tick and B read the new value; B's output of this tick
\* differs from that of the tick before, which is the one A read.
C1_Witness ==
    /\ tick >= 2
    /\ pc = 3
    /\ \E ka \in InputIds(State, 1), kb \in InputIds(State, 2) :
          /\ bound[1][ka] = 2
          /\ bound[2][kb] = 1
          /\ produced[1] # tickStart[1]
          /\ reads[2][kb] = produced[1]
          /\ produced[2] # producedPrev[2]
          /\ reads[1][ka] = producedPrev[2]

----------------------------------------------------------------------------
(* The sine/cosine generator of examples/sin_cos_generator.cpp, T = int.   *)

\* Lines 47-70 of the example: dt, csub, cmul, sadd, smul are nodes 1..5.
SinCosGraph(dt) ==
    LET g1 == GraphVariable(GraphCtor, dt)
        g2 == GraphNode(g1, "Sub")
        g3 == GraphNode(g2, "Mul")
        g4 == GraphNode(g3, "Add")
        g5 == GraphNode(g4, "Mul")
        \* csub.out<0>() >> csub.in<0>() >> cmul.in<0>();
        c1 == OutputConnect(OutputConnect(g5, 2, 2, 1), 2, 3, 1)
        \* dt >> cmul.in<1>();  smul.out<0>() >> csub.in<1>();
        c2 == OutputConnect(OutputConnect(c1, 1, 3, 2), 5, 2, 2)
        \* sadd.out<0>() >> sadd.in<0>() >> smul.in<0>();
        c3 == OutputConnect(OutputConnect(c2, 4, 4, 1), 4, 5, 1)
        \* dt >> smul.in<1>();  cmul.out<0>() >> sadd.in<1>();
        c4 == OutputConnect(OutputConnect(c3, 1, 5, 2), 3, 4, 2)
    IN  \* output_cos = 1.0f; output_sin = 0.0f;
        OutputAssign(OutputAssign(c4, 2, 1), 4, 0)

InitSinCos == \E dt \in 1..MaxDt : Built(SinCosGraph(dt))

NextSinCos ==
    \/ tick < MaxSinCosTicks /\ EvaluateBegin
    \/ EvaluateStep
    \/ EvaluateEnd

SpecSinCos == InitSinCos /\ [][NextSinCos]_vars

\* C7. When the first evaluate() of the sine/cosine graph has run, with cos
\* seeded 1 and sin seeded 0, cos = cos_old - sin_old * dt and
\* sin = sin_old + cos_old * dt, the old values being those the tick started with.
C7_FirstTick ==
    (tick = 1 /\ pc \in {0, Len(m_nodes) + 1}) =>
        /\ tickStart[2] = 1
        /\ tickStart[4] = 0
        /\ m_value[2] = tickStart[2] - tickStart[4] * m_value[1]
        /\ m_value[4] = tickStart[4] + tickStart[2] * m_value[1]

\* The first evaluate() has returned with a time step other than 1.
C7_Witness ==
    /\ tick = 1
    /\ pc = 0
    /\ m_value[1] = 2
    /\ m_value[2] = 1
    /\ m_value[4] = 2

----------------------------------------------------------------------------
(* One binary node fed x0 and x1, by two Variables or by assignment.       *)

\* a = g.variable(x0); b = g.variable(x1); n = g.node<c>(); a >> n.in<0>();
\* b >> n.in<1>();
ArithWired(c, x0, x1) ==
    LET g3 == GraphNode(GraphVariable(GraphVariable(GraphCtor, x0), x1), c) IN
    OutputConnect(OutputConnect(g3, 1, 3, 1), 2, 3, 2)

\* n = g.node<c>(); n.in<0>() = x0; n.in<1>() = x1;
ArithAssigned(c, x0, x1) ==
    InputAssign(InputAssign(GraphNode(GraphCtor, c), 1, 1, x0), 1, 2, x1)

InitArith ==
    \E c \in Kinds \ {"Variable"}, x0 \in -MaxArg..MaxArg, x1 \in -MaxArg..MaxArg :
        \/ Built(ArithWired(c, x0, x1))
        \/ Built(ArithAssigned(c, x0, x1))

NextArith ==
    \/ tick < MaxArithTicks /\ EvaluateBegin
    \/ EvaluateStep
    \/ EvaluateEnd

SpecArith == InitArith /\ [][NextArith]_vars

\* x0 / x1 of int operands: the q with x0 = q * x1 + r, |r| < |x1|, and r
\* zero or of the sign of x0.
Quotient(x0, x1) ==
    CHOOSE q \in -Abs(x0)..Abs(x0) :
        \E r \in -Abs(x1)..Abs(x1) :
            /\ x0 = q * x1 + r
            /\ Abs(r) < Abs(x1)
            /\ r = 0 \/ (r > 0) = (x0 > 0)

\* C10. After an evaluate() the output of the Add, Sub, Mul or Div node is
\* x0 + x1, x0 - x1, x0 * x1 or x0 / x1, x0 being what input 0 reads and x1
\* what input 1 reads; Add(2,3) = 5, Sub(5,2) = 3, Mul(3,4) = 12, Div(10,2) = 5.
C10_Arithmetic ==
    LET n == Len(kind)
        x0 == InputValue(State, n, 1)
        x1 == InputValue(State, n, 2)
        out == m_value[n]
    IN (tick > 0 /\ pc \in {0, Len(m_nodes) + 1}) =>
        /\ kind[n] = "Add" => out = x0 + x1
        /\ kind[n] = "Sub" => out = x0 - x1
        /\ kind[n] = "Mul" => out = x0 * x1
        /\ (kind[n] = "Div" /\ x1 # 0) => out = Quotient(x0, x1)
        /\ (kind[n] = "Add" /\ x0 = 2 /\ x1 = 3) => out = 5
        /\ (kind[n] = "Sub" /\ x0 = 5 /\ x1 = 2) => out = 3
        /\ (kind[n] = "Mul" /\ x0 = 3 /\ x1 = 4) => out = 12
        /\ (kind[n] = "Div" /\ x0 = 10 /\ x1 = 2) => out = 5

\* A Div node fed -7 and 2 by two Variables has been evaluated and holds -3.
C10_Witness ==
    /\ tick = 1
    /\ pc = 0
    /\ Len(kind) = 3
    /\ kind[3] = "Div"
    /\ InputValue(State, 3, 1) = -7
    /\ InputValue(State, 3, 2) = 2
    /\ m_value[3] = -3

----------------------------------------------------------------------------
(* Claims about the ports, under SpecPorts *)

\* Input<T>::value() of input i = <<n, k>>.
ValueOf(i) == InputValue(State, i[1], i[2])

\* C3. Fan-out: two inputs whose last connect call named the same output
\* both read that output's stored value, in every state, also in the middle
\* of a tick: a store into the output shows through both at once.
C3_FanOut ==
    \A i1 \in InputPorts(State), i2 \in InputPorts(State), m \in NodeIds(State) :
        (i1 # i2 /\ bound[i1[1]][i1[2]] = m /\ bound[i2[1]][i2[2]] = m)
        => /\ ValueOf(i1) = OutputValue(State, m)
           /\ ValueOf(i2) = OutputValue(State, m)

\* A tick is at its end, two inputs are bound to one output, the tick stored a
\* new value into that output, and both inputs read the new value.
C3_Witness ==
    /\ pc = Len(m_nodes) + 1
    /\ \E i1 \in InputPorts(State), i2 \in InputPorts(State), m \in NodeIds(State) :
          /\ i1 # i2
          /\ bound[i1[1]][i1[2]] = m
          /\ bound[i2[1]][i2[2]] = m
          /\ m_value[m] # tickStart[m]
          /\ ValueOf(i1) = m_value[m]
          /\ ValueOf(i2) = m_value[m]

\* A call on an input: connect, disconnect or assignment.
InputCall ==
    \/ \E i \in InputPorts(State), p \in OutCells \cup {NullPtr} :
          InputConnectCall(i[1], i[2], p)
    \/ \E i \in InputPorts(State) : InputDisconnectCall(i[1], i[2])
    \/ \E i \in InputPorts(State), v \in Values : InputAssignCall(i[1], i[2], v)

\* C4. No call on an input (connect, disconnect, assignment, connected or
\* not) changes the value stored in an output.
C4_InputCallsKeepOutputs == [][InputCall => m_value' = m_value]_vars

\* C5. Rebind: an input reads the output its last connect call named, whatever
\* it was bound to before; once disconnected it reads its own default, which
\* is the last value assigned to it while it was unconnected (T() if none).
C5_Rebind ==
    \A i \in InputPorts(State) :
        LET b == bound[i[1]][i[2]] IN
        /\ b > 0 => ValueOf(i) = OutputValue(State, b)
        /\ b = 0 => ValueOf(i) = assigned[i[1]][i[2]]

\* One input was rebound from an output to another that holds another value
\* and reads the new one; another input was disconnected from an output and
\* reads its default, which differs from that output's value.
C5_Witness ==
    \E i \in InputPorts(State), j \in InputPorts(State) :
        /\ i # j
        /\ bound[i[1]][i[2]] > 0
        /\ prevBound[i[1]][i[2]] > 0
        /\ m_value[bound[i[1]][i[2]]] # m_value[prevBound[i[1]][i[2]]]
        /\ ValueOf(i) = m_value[bound[i[1]][i[2]]]
        /\ bound[j[1]][j[2]] = 0
        /\ prevBound[j[1]][j[2]] > 0
        /\ ValueOf(j) = assigned[j[1]][j[2]]
        /\ ValueOf(j) # m_value[prevBound[j[1]][j[2]]]

\* C6. Every input's pointer is the address of its own default cell or of an
\* existing output's cell.
C6_BoundCellValid ==
    \A i \in InputPorts(State) :
        LET p == m_pConnectedValue[i[1]][i[2]] IN
        \/ p = DefaultCell(i[1], i[2])
        \/ p \in OutCells

\* C9. Default isolation: an input no connect call was ever made on reads
\* the last value assigned to it, T() when there was none, whatever was done
\* to other ports and nodes.
C9_DefaultIsolation ==
    \A i \in InputPorts(State) :
        ~everConnected[i[1]][i[2]] => ValueOf(i) = assigned[i[1]][i[2]]

\* After a tick, one input was never connected and reads the value assigned
\* to it, while the other input of the node is bound to an output that holds
\* another value.
C9_Witness ==
    /\ pc = 0
    /\ tick > 0
    /\ \E i \in InputPorts(State), j \in InputPorts(State) :
          /\ ~everConnected[i[1]][i[2]]
          /\ assigned[i[1]][i[2]] # 0
          /\ ValueOf(i) = assigned[i[1]][i[2]]
          /\ bound[j[1]][j[2]] > 0
          /\ m_value[bound[j[1]][j[2]]] # ValueOf(i)

----------------------------------------------------------------------------
(* Claims about Graph::evaluate and node creation, under Spec *)

\* C2. The registration list holds every node created so far once, in
\* creation order, and a tick evaluates the nodes of the list one by one in
\* that order: when the loop is at position pc it has evaluated exactly the
\* first pc - 1 nodes, each once.
C2_RegistrationOrder ==
    /\ Len(m_nodes) = Len(kind)
    /\ \A i \in 1..Len(m_nodes) : m_nodes[i] = i
    /\ pc # 0 => evalLog = SubSeq(m_nodes, 1, pc - 1)

\* The second tick is at its end; the first tick evaluated one node, a second
\* node was created after it, and the second tick evaluated it last.
C2_Witness ==
    /\ tick = 2
    /\ pc = Len(m_nodes) + 1
    /\ evalLogPrev = <<1>>
    /\ evalLog = <<1, 2>>

\* C8. The evaluate of the node the loop is at writes no cell but that node's
\* own output: every other output, every input's default value and pointer,
\* the time step and the registration list stay as they were.
C8_EvaluateFrame ==
    [][EvaluateStep =>
        /\ \A m \in NodeIds(State) \ {LoopNode} : m_value'[m] = m_value[m]
        /\ UNCHANGED <<m_defaultValue, m_pConnectedValue, m_evaluationTimeStep,
                       m_nodes, kind>>]_vars

\* A tick evaluated a node whose input is bound to another node's output, and
\* stored a new value into the evaluated node's own output.
C8_Witness ==
    /\ pc # 0
    /\ \E j \in 1..Len(evalLog) :
          LET n == evalLog[j] IN
          /\ produced[j] # tickStart[n]
          /\ \E k \in InputIds(State, n) : bound[n][k] > 0 /\ bound[n][k] # n

----------------------------------------------------------------------------
(* (a + b) * c of examples/simple1.cpp, T = int.                           *)

\* Lines 11-28 of the example: a, b, c, add, mul are nodes 1..5.
Simple1Graph(a, b, c) ==
    LET g3 == GraphVariable(GraphVariable(GraphVariable(GraphCtor, a), b), c)
        g5 == GraphNode(GraphNode(g3, "Add"), "Mul")
        \* a >> add.in<0>();  b >> add.in<1>();
        c1 == OutputConnect(OutputConnect(g5, 1, 4, 1), 2, 4, 2)
    IN  \* add.out<0>() >> mul.in<0>();  c >> mul.in<1>();
        OutputConnect(OutputConnect(c1, 4, 5, 1), 3, 5, 2)

InitSimple1 ==
    \E a \in -MaxSimpleArg..MaxSimpleArg, b \in -MaxSimpleArg..MaxSimpleArg,
       c \in -MaxSimpleArg..MaxSimpleArg : Built(Simple1Graph(a, b, c))

NextSimple1 ==
    \/ tick < MaxSimpleTicks /\ EvaluateBegin
    \/ EvaluateStep
    \/ EvaluateEnd

SpecSimple1 == InitSimple1 /\ [][NextSimple1]_vars

\* C11. With Variables a, b, c, then Add, then Mul, wired Add(a, b) into Mul's
\* input 0 and c into Mul's input 1, an evaluate() leaves Mul's output equal
\* to (a + b) * c; a = 1, b = 2, c = 3 gives 9.
C11_Simple1 ==
    (tick >= 1 /\ pc \in {0, Len(m_nodes) + 1}) =>
        /\ kind = <<"Variable", "Variable", "Variable", "Add", "Mul">>
        /\ m_value[5] = (tickStart[1] + tickStart[2]) * tickStart[3]
        /\ (tickStart[1] = 1 /\ tickStart[2] = 2 /\ tickStart[3] = 3) => m_value[5] = 9

\* The single evaluate() of the example's graph has returned: a = 1, b = 2,
\* c = 3, and the output of mul is 9.
C11_Witness ==
    /\ tick = 1
    /\ pc = 0
    /\ m_value[1] = 1
    /\ m_value[2] = 2
    /\ m_value[3] = 3
    /\ m_value[4] = 3
    /\ m_value[5] = 9

----------------------------------------------------------------------------
(* Claims about faults, under SpecOrder *)

----------------------------------------------------------------------------
(* Programs that use every factory of Graph, neg() included.               *)

\* g.neg<T>(): Graph::node<Neg<T> >() instantiates Neg<T>, whose evaluate
\* (df.h:319-322) calls Inputs<T, T>::firstInput() although Inputs<T, T> is no
\* base of Neg<T>.  The compiler rejects the call, so a program that reaches
\* it has no run beyond it: no node is made, and nothing is registered.
GraphNegCall ==
    /\ Idle
    /\ aborted' = TRUE
    /\ calls' = calls + 1
    /\ UNCHANGED <<graphVars, tickVars, portVars, callVars>>

NextFactories ==
    \/ calls < MaxFactoryCalls /\ \E c \in Kinds : GraphNodeCall(c)
    \/ calls < MaxFactoryCalls /\ \E v \in Values : GraphVariableCall(v)
    \/ calls < MaxFactoryCalls /\ GraphNegCall
    \/ /\ calls < MaxFactoryCalls
       /\ \E i \in InputPorts(State), v \in Values : InputAssignCall(i[1], i[2], v)
    \/ calls < MaxFactoryCalls /\ EvaluateBegin
    \/ EvaluateStep
    \/ EvaluateEnd

SpecFactories == Init /\ [][NextFactories]_vars

\* C13. g.neg<T>() returns a new registered node of class Neg, with one input
\* and one output, and every evaluate of such a node stores the negation of
\* what its input reads into its output (Neg(7) = -7).
C13_Neg ==
    /\ [](\A j \in 1..Len(evalLog) :
             kind[evalLog[j]] = "Neg" =>
                 Len(reads[j]) = 1 /\ produced[j] = -reads[j][1])
    /\ [][GraphNegCall =>
             /\ ~aborted'
             /\ m_nodes' = Append(m_nodes, Len(kind) + 1)
             /\ kind' = Append(kind, "Neg")
             /\ Len(m_defaultValue'[Len(kind')]) = 1]_vars

----------------------------------------------------------------------------
(* Claims about Variable nodes and about connect calls, under SpecPorts *)

\* A step of Graph::evaluate(): the call, one iteration of its loop, its return.
EvaluateCall == EvaluateBegin \/ EvaluateStep \/ EvaluateEnd

\* C14. The evaluate of a Variable is a no-op: no step of Graph::evaluate()
\* changes the output of a Variable, so the output keeps the value it was
\* given at creation or by the last assignment made between ticks, and while
\* a tick runs every evaluate that read through an input bound to a Variable
\* read the value the Variable holds.
C14_VariableNoOp ==
    /\ [][EvaluateCall =>
             \A m \in NodeIds(State) :
                 kind[m] = "Variable" => m_value'[m] = m_value[m]]_vars
    /\ [](pc # 0 =>
             \A j \in 1..Len(evalLog) : \A k \in 1..Len(reads[j]) :
                 LET b == bound[evalLog[j]][k] IN
                 (b > 0 /\ kind[b] = "Variable") =>
                     reads[j][k] = m_value[b] /\ m_value[b] = tickStart[b])

\* The second tick in a row is at its end; Variable 1, created with 1, was
\* assigned 2 before the ticks and still holds 2, and the node bound to it
\* read 2 in this tick as it produced the same output as in the tick before.
C14_Witness ==
    /\ tick = 2
    /\ pc = Len(m_nodes) + 1
    /\ m_value[1] = 2
    /\ evalLogPrev = evalLog
    /\ \E k \in InputIds(State, 3) :
          /\ bound[3][k] = 1
          /\ reads[3][k] = 2

----------------------------------------------------------------------------
(* The time step: a built graph whose program calls the setters, creates   *)
(* nodes and runs ticks.                                                   *)

\* The arguments of g.sampleRate(sr) and of g.timeStep(dt): 1.0, 3.0, 4.0,
\* 49.0, 100.0, and 0.25, 0.01.
SampleRates == {DoubleOfInt(n) : n \in Rates}
TimeSteps == {Reciprocal(DoubleOfInt(n)) : n \in StepInverses}

\* auto& a = g.variable<int>(1); auto& n = g.add<int>(); a >> n.in<0>();
TimeGraph == OutputConnect(GraphNode(GraphVariable(GraphCtor, 1), "Add"), 1, 2, 1)

InitTime == Built(TimeGraph)

NextTime ==
    \/ calls < MaxTimeCalls /\ \E dt \in TimeSteps : TimeStepCall(dt)
    \/ calls < MaxTimeCalls /\ \E sr \in SampleRates : SampleRateCall(sr)
    \/ calls < MaxTimeCalls /\ \E c \in Kinds : GraphNodeCall(c)
    \/ calls < MaxTimeCalls /\ EvaluateBegin
    \/ EvaluateStep
    \/ EvaluateEnd

SpecTime == InitTime /\ [][NextTime]_vars

\* What the last setter call asked the time step to be: dt after
\* timeStep(dt), 1.0 / sr after sampleRate(sr), 1e-6 when none was called.
StepAsked ==
    CASE lastSetter.op = "timeStep" -> lastSetter.arg
      [] lastSetter.op = "sampleRate" -> Reciprocal(lastSetter.arg)
      [] OTHER -> DoubleDivide(DoubleOfInt(1), DoubleOfInt(1000000))

\* C15, as claimed.  After timeStep(dt): timeStep() = dt and sampleRate() =
\* 1 / dt.  After sampleRate(sr): timeStep() = 1 / sr and sampleRate() = sr.
\* The last setter call decides, whatever was called before it.
C15_ReciprocalViews ==
    /\ lastSetter.op = "timeStep" =>
          /\ GraphTimeStep(State) = lastSetter.arg
          /\ GraphSampleRate(State) = Reciprocal(lastSetter.arg)
    /\ lastSetter.op = "sampleRate" =>
          /\ GraphTimeStep(State) = Reciprocal(lastSetter.arg)
          /\ GraphSampleRate(State) = lastSetter.arg

\* C15, amended.  After timeStep(dt): timeStep() = dt and sampleRate() =
\* 1 / dt.  After sampleRate(sr): timeStep() = 1 / sr and sampleRate() =
\* 1 / (1 / sr), each quotient rounded to double: that is sr when sr is a
\* power of two, and sr or a double next to sr otherwise.  The last setter
\* call decides, whatever was called before it, and no step of evaluate()
\* and no node creation changes the time step.
C15_ReciprocalViewsRounded ==
    /\ [](lastSetter.op = "timeStep" =>
             /\ GraphTimeStep(State) = lastSetter.arg
             /\ GraphSampleRate(State) = Reciprocal(lastSetter.arg))
    /\ [](lastSetter.op = "sampleRate" =>
             /\ GraphTimeStep(State) = Reciprocal(lastSetter.arg)
             /\ GraphSampleRate(State) = Reciprocal(Reciprocal(lastSetter.arg))
             /\ GraphSampleRate(State) \in
                    {lastSetter.arg, NextUp(lastSetter.arg), NextDown(lastSetter.arg)}
             /\ IsPowerOfTwo(lastSetter.arg) => GraphSampleRate(State) = lastSetter.arg)
    /\ [][(EvaluateCall \/ \E c \in Kinds : GraphNodeCall(c)) =>
             m_evaluationTimeStep' = m_evaluationTimeStep]_vars

\* sampleRate(49.0) was called after timeStep(0.25), a node was created after
\* that, and sampleRate() returns the double next above 49.0.
C15_Witness ==
    /\ lastSetter.op = "sampleRate"
    /\ lastSetter.arg = DoubleOfInt(49)
    /\ calls = 3
    /\ Len(kind) = 3
    /\ GraphTimeStep(State) # Reciprocal(DoubleOfInt(4))
    /\ GraphSampleRate(State) = NextUp(DoubleOfInt(49))

\* C16. Inside every node's evaluate, timeStep() returns the time step the
\* graph was last asked to have and sampleRate() returns 1 / timeStep(): every
\* node evaluated in a tick reads what the last setter call before the tick set.
C16_NodeTimeStep ==
    pc # 0 =>
        /\ Len(stepRead) = Len(evalLog)
        /\ \A i \in 1..Len(stepRead) :
              /\ stepRead[i] = StepAsked
              /\ stepRead[i] = GraphTimeStep(State)
              /\ NodeSampleRate(State) = DoubleDivide(DoubleOfInt(1), stepRead[i])

\* The second tick is at its end; sampleRate(49.0) was called between the
\* two ticks, and both nodes read 1.0 / 49.0 in the second tick.
C16_Witness ==
    /\ tick = 2
    /\ pc = Len(m_nodes) + 1
    /\ lastSetter.op = "sampleRate"
    /\ lastSetter.arg = DoubleOfInt(49)
    /\ lastSetter.at = 1
    /\ stepRead = <<Reciprocal(DoubleOfInt(49)), Reciprocal(DoubleOfInt(49))>>

----------------------------------------------------------------------------
(* Termination of a tick: two nodes registered in the order [A, B], wired in *)
(* any way, seeded with values that reach the ends of the int range, then    *)
(* stepped, with the loop of evaluate() fair: evaluate() is one sequential   *)
(* pass of the calling thread, which neither blocks nor waits, so a started  *)
(* loop takes its next step.                                                 *)

\* Seeds of the outputs: std::numeric_limits<int>::min(), -1 and 2.
WideValues == {IntMin, -1, 2}

InitCycles ==
    \E ca \in Kinds, cb \in Kinds, sa \in WideValues, sb \in WideValues :
        \E w \in [InputPorts(GraphNode(GraphNode(GraphCtor, ca), cb)) -> 0..2] :
            Built(OrderGraph(ca, cb, w, sa, sb))

SpecCycles == InitCycles /\ [][NextOrder]_vars

FairSpecCycles == SpecCycles /\ WF_vars(EvaluateStep) /\ WF_vars(EvaluateEnd)

\* A started evaluate() has evaluated every registered node, in order, when
\* its loop ends, never evaluates a node twice, and returns or faults.
OnePassPerTick ==
    /\ [](pc = Len(m_nodes) + 1 => evalLog = m_nodes)
    /\ [](\A i \in 1..Len(evalLog) : \A j \in 1..Len(evalLog) :
             i # j => evalLog[i] # evalLog[j])
    /\ (pc # 0 ~> (pc = 0 \/ aborted))

\* C17 as stated. A tick runs to completion whatever the wiring, feedback
\* cycles and self-loops included: a started evaluate() returns, having
\* evaluated every registered node exactly once, in order, and no node twice;
\* the one way out is an int division by zero in the node the loop is at.
C17_OnlyZeroDivisorStops ==
    /\ OnePassPerTick
    /\ [](aborted =>
             /\ pc \in 1..Len(m_nodes)
             /\ kind[LoopNode] = "Div"
             /\ InputValue(State, LoopNode, 2) = 0)

\* C17, amended. As above, but the way out is the trap of an int division
\* with undefined behaviour in the Div node the loop is at: a zero divisor, or
\* IntMin divided by -1.
C17_TickTerminates ==
    /\ OnePassPerTick
    /\ [](aborted =>
             /\ pc \in 1..Len(m_nodes)
             /\ Undefined(kind[LoopNode], InputValue(State, LoopNode, 1),
                          InputValue(State, LoopNode, 2)))

\* A second tick has returned on a graph whose first node reads its own
\* output and the second node's, and whose second node reads the first's.
C17_Witness ==
    /\ tick = 2
    /\ pc = 0
    /\ ~aborted
    /\ evalLog = <<1, 2>>
    /\ bound[1] = <<1, 2>>
    /\ \E k \in InputIds(State, 2) : bound[2][k] = 1

-----------------------------------------------------------------------------
(* The recurrence of the sine/cosine generator, under SpecSinCos.            *)

\* C18. In every tick n >= 1 of the sine/cosine graph (dt, csub, cmul, sadd,
\* smul are nodes 1..5): csub reads the cosine of tick n - 1 and the product
\* sin * dt that smul stored in tick n - 1 (0 before the first tick), and
\* leaves cos_n = cos_(n-1) - sin_(n-1) * dt; cmul reads cos_n of this tick and
\* leaves cos_n * dt; sadd reads the sine of tick n - 1 and cmul's product of
\* this tick, and leaves sin_n = sin_(n-1) + cos_n * dt; smul leaves
\* sin_n * dt; these are the outputs when the tick ends.
C18_SinCosRecurrence ==
    LET dt == m_value[1]
        done == Len(evalLog)
    IN /\ done >= 2 =>
             /\ reads[2] = <<tickStart[2], tickStart[5]>>
             /\ tickStart[5] = tickStart[4] * dt
             /\ produced[2] = tickStart[2] - tickStart[4] * dt
       /\ done >= 3 =>
             /\ reads[3] = <<produced[2], dt>>
             /\ produced[3] = produced[2] * dt
       /\ done >= 4 =>
             /\ reads[4] = <<tickStart[4], produced[3]>>
             /\ produced[4] = tickStart[4] + produced[2] * dt
       /\ done >= 5 =>
             /\ reads[5] = <<produced[4], dt>>
             /\ produced[5] = produced[4] * dt
       /\ (tick >= 1 /\ pc \in {0, Len(m_nodes) + 1}) =>
             /\ done = 5
             /\ \A n \in 2..5 : m_value[n] = produced[n]

\* The third tick has returned with dt = 2: cos went 1, 1, -3, 5 and sin went
\* 0, 2, -4, 6, so the cosine of tick 3 used the sine of tick 2 and the sine
\* of tick 3 used the cosine of tick 3.
C18_Witness ==
    /\ tick = 3
    /\ pc = 0
    /\ tickStart = <<2, -3, -6, -4, -8>>
    /\ m_value = <<2, 5, 10, 6, 12>>

-----------------------------------------------------------------------------
(* A feed-forward chain: a Variable feeds stage 1, stage j - 1 feeds input 0 *)
(* of stage j, and input 1 of every stage holds ChainOperand.  The stages    *)
(* are created in dependency order after the Variable, or in reverse         *)
(* dependency order before it; between ticks the Variable is assigned.       *)

\* The value assigned to input 1 of every stage.
ChainOperand == 2

\* The classes of the stages.
StageKinds == {"Add", "Sub", "Mul"}

\* The node of stage j of a chain of k stages (stage 0 is the Variable).
StageNode(k, reverse, j) == IF reverse THEN k + 1 - j ELSE j + 1

\* g.node<c>() k times.
RECURSIVE ChainNodes(_, _, _)
ChainNodes(g, c, k) == IF k = 0 THEN g ELSE ChainNodes(GraphNode(g, c), c, k - 1)

\* For the stages j..k: stage(j - 1).out<0>() >> stage(j).in<0>();
\* stage(j).in<1>() = ChainOperand;
RECURSIVE ChainWire(_, _, _, _)
ChainWire(g, k, reverse, j) ==
    IF j > k
    THEN g
    ELSE ChainWire(InputAssign(OutputConnect(g, StageNode(k, reverse, j - 1),
                                             StageNode(k, reverse, j), 1),
                               StageNode(k, reverse, j), 2, ChainOperand),
                   k, reverse, j + 1)

\* The chain of k stages of class c on a Variable holding v.
ChainGraph(k, reverse, c, v) ==
    ChainWire(IF reverse
              THEN GraphVariable(ChainNodes(GraphCtor, c, k), v)
              ELSE ChainNodes(GraphVariable(GraphCtor, v), c, k),
              k, reverse, 1)

InitChain ==
    \E k \in 1..MaxChain, reverse \in BOOLEAN, c \in StageKinds, v \in Values :
        Built(ChainGraph(k, reverse, c, v))

\* Whether the chain was created in reverse dependency order, its Variable and
\* its number of stages.
ChainReverse == kind[1] # "Variable"
ChainVariable == IF ChainReverse THEN Len(kind) ELSE 1
ChainLength == Len(kind) - 1

NextChain ==
    \/ calls < MaxChainCalls /\ EvaluateBegin
    \/ EvaluateStep
    \/ EvaluateEnd
    \/ /\ calls < MaxChainCalls
       /\ \E v \in Values : v # m_value[ChainVariable] /\ VariableAssignCall(ChainVariable, v)

SpecChain == InitChain /\ [][NextChain]_vars

\* The value the Variable holds during tick t.
VariableDuring(t) ==
    LET before == {i \in 1..Len(varSet) : varSet[i].at < t} IN
    IF before # {}
    THEN varSet[CHOOSE i \in before : \A i2 \in before : i2 <= i].new
    ELSE IF varSet = <<>> THEN m_value[ChainVariable] ELSE varSet[1].old

\* What j stages of class c in a row make of x.
RECURSIVE Staged(_, _, _)
Staged(c, x, j) ==
    IF j = 0 THEN x ELSE EvaluateResult(c, Staged(c, x, j - 1), ChainOperand)

\* C19. Between ticks, after T = tick calls of evaluate(): in a chain created
\* in dependency order every stage j holds what j stages make of the value the
\* Variable held during the last tick, so a new value determines the last
\* stage's output after one evaluate(); in a chain created in reverse
\* dependency order stage j holds what j stages make of the value the Variable
\* held j - 1 ticks earlier (of its initial output 0 while T < j), so a value
\* assigned d ticks ago has reached the stages 1..d and no others: the last of
\* k stages shows it after k calls and not before, and until then the later
\* stages hold values computed from the values the Variable held before.
C19_ChainLatency ==
    pc = 0 =>
        \A j \in 1..ChainLength :
            LET n == StageNode(ChainLength, ChainReverse, j)
                c == kind[n]
            IN IF ~ChainReverse
               THEN tick >= 1 => m_value[n] = Staged(c, VariableDuring(tick), j)
               ELSE m_value[n] = IF tick >= j
                                 THEN Staged(c, VariableDuring(tick - j + 1), j)
                                 ELSE Staged(c, 0, tick)

\* Three Add stages created in reverse dependency order ran three ticks on 1
\* and settled; then the Variable was assigned 2 and two more ticks ran:
\* stages 1 and 2 show the new value, stage 3 still the old one.
C19_Witness ==
    /\ pc = 0
    /\ tick = 5
    /\ kind = <<"Add", "Add", "Add", "Variable">>
    /\ varSet = <<[at |-> 3, old |-> 1, new |-> 2]>>
    /\ m_value = <<7, 6, 4, 2>>

-----------------------------------------------------------------------------
(* The frame of the connection operations: the port operations on two        *)
(* Variables and one binary node, with a call budget of their own.           *)

NextConnect ==
    \/ /\ calls < MaxConnectCalls
       /\ \E m \in NodeIds(State), i \in InputPorts(State) :
             OutputConnectCall(m, i[1], i[2])
    \/ /\ calls < MaxConnectCalls
       /\ \E m \in NodeIds(State), i1 \in InputPorts(State), i2 \in InputPorts(State) :
             i1 # i2 /\ OutputChainCall(m, i1, i2)
    \/ /\ calls < MaxConnectCalls
       /\ \E i \in InputPorts(State), p \in OutCells \cup {NullPtr} :
             InputConnectCall(i[1], i[2], p)
    \/ calls < MaxConnectCalls /\ \E i \in InputPorts(State) : InputDisconnectCall(i[1], i[2])
    \/ /\ calls < MaxConnectCalls
       /\ \E i \in InputPorts(State), v \in Values : InputAssignCall(i[1], i[2], v)
    \/ calls < MaxConnectCalls /\ \E m \in NodeIds(State), v \in Values : OutputAssignCall(m, v)
    \/ calls < MaxConnectCalls /\ EvaluateBegin
    \/ EvaluateStep
    \/ EvaluateEnd

SpecConnect == InitPorts /\ [][NextConnect]_vars

\* Nothing but the bindings of the inputs in S changes: every output's value,
\* every input's default value, the registration list and the binding of
\* every input outside S stay as they are.
ConnectFrame(S) ==
    /\ m_value' = m_value
    /\ m_defaultValue' = m_defaultValue
    /\ m_nodes' = m_nodes
    /\ \A i \in InputPorts(State) \ S :
          m_pConnectedValue'[i[1]][i[2]] = m_pConnectedValue[i[1]][i[2]]

\* C20. in.connect(pValue), out.connect(in), out >> in and in.disconnect()
\* change only the binding of the input in they are applied to (out >> in1 >>
\* in2 is two applications): the outputs' values, the inputs' default values,
\* the target's included, the bindings of the other inputs, those bound to
\* the same output included, and the registration list are unchanged.
C20_ConnectFrame ==
    [][/\ \A i \in InputPorts(State) :
             (\/ \E m \in NodeIds(State) : OutputConnectCall(m, i[1], i[2])
              \/ \E p \in OutCells \cup {NullPtr} : InputConnectCall(i[1], i[2], p)
              \/ InputDisconnectCall(i[1], i[2]))
                 => ConnectFrame({i})
       /\ \A i1 \in InputPorts(State), i2 \in InputPorts(State) :
             (\E m \in NodeIds(State) : OutputChainCall(m, i1, i2))
                 => ConnectFrame({i1, i2})]_vars

\* Input 0 of the binary node was assigned 2, then bound to the first
\* Variable's output, and then input 1 was bound to the same output: input 0
\* is still bound to it, its default is still 2, the outputs still hold 1, 2, 0.
C20_Witness ==
    /\ calls = 3
    /\ pc = 0
    /\ bound[3] = <<1, 1>>
    /\ prevBound[3] = <<0, 0>>
    /\ m_pConnectedValue[3] = <<OutCell(1), OutCell(1)>>
    /\ m_defaultValue[3] = <<2, 0>>
    /\ m_value = <<1, 2, 0>>

====
